---- MODULE Spec2Model ----
(***************************************************************************)
(* Model of scripts/calendar_updater.py: CalendarUpdater._authenticate,    *)
(* CalendarUpdater.find_events and CalendarUpdater.bulk_update, together   *)
(* with the three remote calls they issue (events().list / get / update).  *)
(*                                                                         *)
(* A Python str is a sequence of one-character strings; None is the        *)
(* one-element sequence NoneVal.  A Python dict is a function whose        *)
(* domain is its set of keys.                                              *)
(***************************************************************************)
EXTENDS Integers, Sequences, FiniteSets, TLC

VARIABLES
    \* --- the remote calendar service -------------------------------------
    remote,         \* event id -> full event representation (a dict)
    \* --- find_events ------------------------------------------------------
    listing,        \* items returned by the last events().list call
    fcall,          \* arguments of the last find_events call
    found,          \* value returned by the last find_events call
    \* --- bulk_update ------------------------------------------------------
    pc,             \* "idle" (never called) | "loop" | "raised" | "done"
    args,           \* keyword arguments of the running bulk_update call
    events,         \* the events argument
    idx,            \* position of the for loop (1-based, next to process)
    updated_count,  \* local updated_count
    calls,          \* remote calls issued by the running invocation
    reports,        \* lines printed by the running invocation
    ret,            \* value returned by the last invocation
    remote0,        \* remote state before the current streak of dry runs
                    \* (before the invocation itself when it is live)
    prev,           \* summary of the previous completed invocation
    \* --- _authenticate ----------------------------------------------------
    token_file,     \* token.json: NoFile or the stored credential
    secret_exists,  \* os.path.exists(credentials_path)
    apc,            \* outcome of the last _authenticate: "idle" | "done" | "raised"
    creds,          \* local creds when the last _authenticate ended
    service,        \* self.service: NoService or the credential it wraps
    raised,         \* exception that ended the last _authenticate
    did             \* what the last _authenticate saw and did

vars == <<remote, listing, fcall, found, pc, args, events, idx, updated_count,
          calls, reports, ret, remote0, prev,
          token_file, secret_exists, apc, creds, service, raised, did>>

findVars == <<listing, fcall, found>>
bulkVars == <<pc, args, events, idx, updated_count, calls, reports, ret,
              remote0, prev>>
authVars == <<token_file, secret_exists, apc, creds, service, raised, did>>

----------------------------------------------------------------------------
(* Python values                                                           *)

NoneVal == <<"<None>">>

\* bool(x) for x: Optional[str]
Truthy(x) == x # NoneVal /\ x # <<>>

UpperCase == <<"A","B","C","D","E","F","G","H","I","J","K","L","M",
               "N","O","P","Q","R","S","T","U","V","W","X","Y","Z">>
LowerCase == <<"a","b","c","d","e","f","g","h","i","j","k","l","m",
               "n","o","p","q","r","s","t","u","v","w","x","y","z">>

LowerChar(c) ==
    IF \E k \in DOMAIN UpperCase : UpperCase[k] = c
    THEN LowerCase[CHOOSE k \in DOMAIN UpperCase : UpperCase[k] = c]
    ELSE c

\* str.lower()
Lower(s) == [k \in DOMAIN s |-> LowerChar(s[k])]

\* sub in s
Contains(sub, s) ==
    \E k \in 0..(Len(s) - Len(sub)) : SubSeq(s, k + 1, k + Len(sub)) = sub

Whitespace == {" ", "\n", "\t", "\r", "\f"}

\* str.strip()
Strip(s) ==
    LET keep == {k \in DOMAIN s : s[k] \notin Whitespace}
    IN  IF keep = {} THEN <<>>
        ELSE LET lo == CHOOSE k \in keep : \A j \in keep : k <= j
                 hi == CHOOSE k \in keep : \A j \in keep : k >= j
             IN  SubSeq(s, lo, hi)

\* str(x) for x already a str
Str(x) == x

EmptyDict == <<>>

\* d.get(k, default)
Get(d, k, default) == IF k \in DOMAIN d THEN d[k] ELSE default

\* d.update(u): the keys of u overlaid on d
DictUpdate(d, u) ==
    [k \in (DOMAIN d) \cup (DOMAIN u) |-> IF k \in DOMAIN u THEN u[k] ELSE d[k]]

----------------------------------------------------------------------------
(* CalendarUpdater._authenticate                                           *)

NoFile == <<>>
NoCreds == <<>>
NoService == <<>>

\* a Credentials object: has an access token, its expiry has passed, has a
\* refresh token
Credentials == [token : BOOLEAN, expired : BOOLEAN, refresh_token : BOOLEAN]

\* creds.valid
Valid(c) == c.token /\ ~c.expired

\* line 33: not creds or not creds.valid
NoValidCreds(cs) == IF cs = NoCreds THEN TRUE ELSE ~Valid(cs[1])

\* line 34: creds and creds.expired and creds.refresh_token
Refreshable(cs) ==
    IF cs = NoCreds THEN FALSE ELSE cs[1].expired /\ cs[1].refresh_token

SecretAssumed == TRUE

\* line 37: os.path.exists(self.credentials_path)
CredentialsFileExists == secret_exists

\* lines 29-30: creds as loaded from token.json
Loaded == IF token_file # NoFile THEN token_file ELSE NoCreds

NothingDone == [loaded |-> NoCreds, secret |-> FALSE, effects |-> {}]

Done(effects) == [loaded |-> Loaded, secret |-> secret_exists, effects |-> effects]

FileNotFoundError == <<"F","i","l","e","N","o","t","F","o","u","n","d">>
RefreshError == <<"R","e","f","r","e","s","h">>
GrantError == <<"G","r","a","n","t">>

\* a valid cached credential: straight to build(...)
AuthCached ==
    /\ ~NoValidCreds(Loaded)
    /\ creds' = Loaded
    /\ service' = Loaded
    /\ apc' = "done"
    /\ raised' = NoneVal
    /\ did' = Done({})
    /\ UNCHANGED <<token_file, secret_exists, remote, findVars, bulkVars>>

\* lines 34-35, 48-51: refresh succeeds, the token cache is rewritten
AuthRefreshOk ==
    /\ NoValidCreds(Loaded)
    /\ Refreshable(Loaded)
    /\ LET c == <<[token |-> TRUE, expired |-> FALSE, refresh_token |-> TRUE]>>
       IN  /\ creds' = c
           /\ token_file' = c
           /\ service' = c
    /\ apc' = "done"
    /\ raised' = NoneVal
    /\ did' = Done({"refresh", "write"})
    /\ UNCHANGED <<secret_exists, remote, findVars, bulkVars>>

\* line 35 raises
AuthRefreshFails ==
    /\ NoValidCreds(Loaded)
    /\ Refreshable(Loaded)
    /\ creds' = Loaded
    /\ service' = NoService
    /\ apc' = "raised"
    /\ raised' = RefreshError
    /\ did' = Done({"refresh"})
    /\ UNCHANGED <<token_file, secret_exists, remote, findVars, bulkVars>>

\* lines 37-41: raise FileNotFoundError
AuthMissingSecret ==
    /\ NoValidCreds(Loaded)
    /\ ~Refreshable(Loaded)
    /\ ~CredentialsFileExists
    /\ creds' = Loaded
    /\ service' = NoService
    /\ apc' = "raised"
    /\ raised' = FileNotFoundError
    /\ did' = Done({})
    /\ UNCHANGED <<token_file, secret_exists, remote, findVars, bulkVars>>

\* lines 42-51: the interactive grant succeeds, the token cache is written
AuthGrantOk ==
    /\ NoValidCreds(Loaded)
    /\ ~Refreshable(Loaded)
    /\ CredentialsFileExists
    /\ \E rt \in BOOLEAN :
         LET c == <<[token |-> TRUE, expired |-> FALSE, refresh_token |-> rt]>>
         IN  /\ creds' = c
             /\ token_file' = c
             /\ service' = c
    /\ apc' = "done"
    /\ raised' = NoneVal
    /\ did' = Done({"grant", "write"})
    /\ UNCHANGED <<secret_exists, remote, findVars, bulkVars>>

\* lines 42-45 raise
AuthGrantFails ==
    /\ NoValidCreds(Loaded)
    /\ ~Refreshable(Loaded)
    /\ CredentialsFileExists
    /\ creds' = Loaded
    /\ service' = NoService
    /\ apc' = "raised"
    /\ raised' = GrantError
    /\ did' = Done({"grant"})
    /\ UNCHANGED <<token_file, secret_exists, remote, findVars, bulkVars>>

\* between two runs of the program the cached access token expires
TokenExpires ==
    /\ token_file # NoFile
    /\ ~token_file[1].expired
    /\ token_file' = <<[token_file[1] EXCEPT !.expired = TRUE]>>
    /\ UNCHANGED <<secret_exists, apc, creds, service, raised, did, remote,
                   findVars, bulkVars>>

\* line 14: the user deletes token.json
TokenDeleted ==
    /\ token_file # NoFile
    /\ token_file' = NoFile
    /\ UNCHANGED <<secret_exists, apc, creds, service, raised, did, remote,
                   findVars, bulkVars>>

\* lines 39-40: the user downloads credentials.json, or removes it
SecretChanges ==
    /\ secret_exists' = ~secret_exists
    /\ UNCHANGED <<token_file, apc, creds, service, raised, did, remote,
                   findVars, bulkVars>>

----------------------------------------------------------------------------
(* The remote calendar service                                             *)

HomeCalendar == "primary"
CalendarIds == {HomeCalendar, "work"}

\* the events of calendar cid as the service holds them ("work" is empty)
Calendar(cid) == IF cid = HomeCalendar THEN remote ELSE EmptyDict

\* Bound on maxResults in the modelled calls
MaxResults == 3

\* timedelta(days=365)
DefaultWindowDays == 365

NoDate == <<>>

\* datetime.isoformat() + 'Z', and the service reading it back
IsoZ(d) == <<d, "Z">>
ParseIsoZ(t) == t[1]

RECURSIVE SortByStart(_, _)
\* orderBy='startTime': the events of ids, ascending by start
SortByStart(cal, ids) ==
    IF ids = {} THEN <<>>
    ELSE LET first == CHOOSE i \in ids :
                        \A j \in ids : cal[i]["start"] <= cal[j]["start"]
         IN  <<cal[first]>> \o SortByStart(cal, ids \ {first})

Prefix(s, n) == SubSeq(s, 1, IF Len(s) < n THEN Len(s) ELSE n)

\* events().list(calendarId, timeMin, timeMax, maxResults, singleEvents=True,
\*               orderBy='startTime').execute().get('items', [])
RemoteList(cal, time_min, time_max, max_results) ==
    LET inWindow == {i \in DOMAIN cal :
                       /\ ParseIsoZ(time_min) <= cal[i]["start"]
                       /\ cal[i]["start"] < ParseIsoZ(time_max)}
    IN  Prefix(SortByStart(cal, inWindow), max_results)

----------------------------------------------------------------------------
(* CalendarUpdater.find_events                                             *)

\* the title filter of find_events applied to the listed items
FilterTitleCaseSensitive(items, title_contains) ==
    IF Truthy(title_contains)
    THEN LET Keep(e) == Contains(title_contains, Get(e, "summary", <<>>))
         IN  SelectSeq(items, Keep)
    ELSE items

FilterTitle(items, title_contains) ==
    IF Truthy(title_contains)
    THEN LET Keep(e) == Contains(Lower(title_contains),
                                 Lower(Get(e, "summary", <<>>)))
         IN  SelectSeq(items, Keep)
    ELSE items

\* one call of find_events: the listing call, then the title filter
FindEventsCall(calendar_id, title_contains, start_date, end_date, max_results, now) ==
    LET sd == IF start_date = NoDate THEN now ELSE start_date[1]
        ed == IF end_date = NoDate THEN sd + DefaultWindowDays ELSE end_date[1]
        items == RemoteList(Calendar(calendar_id), IsoZ(sd), IsoZ(ed), max_results)
    IN  /\ listing' = items
        /\ fcall' = [calendar_id |-> calendar_id,
                     title_contains |-> title_contains, start_date |-> start_date,
                     end_date |-> end_date, max_results |-> max_results,
                     now |-> now]
        /\ found' = FilterTitle(items, title_contains)

NoCall == [calendar_id |-> HomeCalendar, title_contains |-> NoneVal, start_date |-> NoDate,
           end_date |-> NoDate, max_results |-> 0, now |-> 0]

S_TeamMeeting == <<"T","e","a","m"," ","M","e","e","t","i","n","g">>
S_Lunch == <<"L","u","n","c","h">>
S_MeetingRecap == <<"m","e","e","t","i","n","g"," ","r","e","c","a","p">>
S_Meeting == <<"M","e","e","t","i","n","g">>

EventIds == {"e1", "e2", "e3"}

\* titles the searched calendars carry; NoneVal stands for "no summary key"
FindTitles == {NoneVal, <<>>, S_TeamMeeting, S_Lunch, S_MeetingRecap}

\* start days of e1, e2, e3 in the searched calendars
FindStarts == {<<1, 2, 3>>, <<2, 400, 1>>}

FindFilters == {NoneVal, <<>>, S_Meeting, Lower(S_Lunch), <<"E","T">>, <<"x">>}

FindStartDates == {NoDate, <<2>>}
FindEndDates == {NoDate, <<3>>}
\* datetime.utcnow() at the time of the call
FindNows == {1}

IdIndex(i) == CASE i = "e1" -> 1 [] i = "e2" -> 2 [] i = "e3" -> 3

FindEvent(i, title, start) ==
    IF title = NoneVal
    THEN [k \in {"id", "start"} |-> IF k = "id" THEN i ELSE start]
    ELSE [k \in {"id", "start", "summary"} |->
            IF k = "id" THEN i ELSE IF k = "start" THEN start ELSE title]

----------------------------------------------------------------------------
(* CalendarUpdater.bulk_update                                             *)

\* the updates dict of one loop iteration, given the existing description
\* the append branch reads
BuildUpdates(existing_desc, a) ==
    LET u1 == IF Truthy(a.new_title)
              THEN "summary" :> a.new_title ELSE EmptyDict
        u2 == IF Truthy(a.new_description)
              THEN "description" :> a.new_description
              ELSE IF Truthy(a.append_to_description)
                   THEN "description" :>
                          Strip(existing_desc \o <<"\n">> \o a.append_to_description)
                   ELSE EmptyDict
        u3 == IF Truthy(a.new_location)
              THEN "location" :> a.new_location ELSE EmptyDict
        u4 == IF Truthy(a.new_color_id)
              THEN "colorId" :> Str(a.new_color_id) ELSE EmptyDict
    IN  u1 @@ u2 @@ u3 @@ u4

UpdatesFromRemote(event, a) ==
    BuildUpdates(Get(remote[event["id"]], "description", <<>>), a)

\* updates as built for `event`, the caller's record
Updates(event, a) == BuildUpdates(Get(event, "description", <<>>), a)

\* event.get('summary', 'Untitled')
EventTitle(event) == Get(event, "summary", <<"U","n","t","i","t","l","e","d">>)

DryRunIgnored(a) == FALSE

\* the dry_run test of the loop body
DryRun(a) == a.dry_run

DictReplace(d, u) == u
DictConcat(d, u) ==
    [k \in (DOMAIN d) \cup (DOMAIN u) |->
        IF k \in DOMAIN u
        THEN (IF k \in DOMAIN d THEN d[k] ELSE <<>>) \o u[k]
        ELSE d[k]]

\* full_event after full_event.update(updates): the body of the update call
MergedBody(full_event, updates) == DictUpdate(full_event, updates)

AbortBatch(i, n) == n + 1

\* where the for loop goes after the except clause has reported a failure
AfterFailure(i, n) == i + 1

CountFailure(c) == c + 1

\* updated_count after an iteration that ended in the except clause
CountAfterFailure(c) == c

GetFailurePropagates == "propagates"

\* a failing events().get(...).execute() is raised inside the try block
GetFailure == "caught"

ErrGet == <<"4","0","4">>
ErrUpdate == <<"4","0","3">>

GetCall(pos, cid, eid, ok, result) ==
    [op |-> "get", pos |-> pos, calendarId |-> cid, eventId |-> eid,
     ok |-> ok, data |-> result]
UpdateCall(pos, cid, eid, ok, body) ==
    [op |-> "update", pos |-> pos, calendarId |-> cid, eventId |-> eid,
     ok |-> ok, data |-> body]

Report(kind, pos, title, detail) ==
    [kind |-> kind, pos |-> pos, title |-> title, detail |-> detail]

\* the calendar the bulk updates run on
BulkCalendar ==
    [i \in EventIds |->
        CASE i = "e1" -> [id |-> "e1", start |-> 1, summary |-> <<"A","b">>,
                          description |-> <<"a">>]
          [] i = "e2" -> [id |-> "e2", start |-> 2, location |-> <<"R">>]
          [] i = "e3" -> [id |-> "e3", start |-> 3, summary |-> <<"b","a">>,
                          description |-> <<"a"," ","b">>, colorId |-> <<"1">>]]

NoArgs == [calendar_id |-> HomeCalendar, new_title |-> NoneVal,
           new_description |-> NoneVal, new_location |-> NoneVal,
           new_color_id |-> NoneVal, append_to_description |-> NoneVal,
           dry_run |-> TRUE]

\* argument values of the modelled bulk_update calls
ArgTitles == {NoneVal, <<"T">>}
ArgDescriptions == {NoneVal, <<>>, <<"D">>}
ArgAppends == {NoneVal, <<" ", "x">>}
ArgLocations == {NoneVal, <<"L">>}
ArgColors == {NoneVal, <<"9">>}

ArgSets == [calendar_id : CalendarIds, new_title : ArgTitles,
            new_description : ArgDescriptions, new_location : ArgLocations,
            new_color_id : ArgColors, append_to_description : ArgAppends,
            dry_run : BOOLEAN]

OkPositions(cs) == {cs[k].pos : k \in {j \in DOMAIN cs : cs[j].op = "update" /\ cs[j].ok}}

\* the caller calls bulk_update(found, **a)
Invoke(a) ==
    /\ pc = "idle"
    /\ pc' = "loop"
    /\ args' = a
    /\ events' = found
    /\ idx' = 1
    /\ updated_count' = 0
    /\ calls' = <<>>
    /\ reports' = <<>>
    /\ remote0' = remote
    /\ UNCHANGED <<remote, ret, prev, findVars, authVars>>

\* the caller repeats the call on the same event records, choosing dry_run
Rerun(dry) ==
    /\ pc = "done"
    /\ pc' = "loop"
    /\ args' = [args EXCEPT !.dry_run = dry]
    /\ idx' = 1
    /\ updated_count' = 0
    /\ calls' = <<>>
    /\ reports' = <<>>
    /\ remote0' = IF dry /\ args.dry_run THEN remote0 ELSE remote
    /\ prev' = <<[dry_run |-> args.dry_run, okPos |-> OkPositions(calls),
                  remoteAfter |-> remote, ret |-> ret]>>
    /\ UNCHANGED <<remote, events, ret, findVars, authVars>>

InLoop == pc = "loop" /\ idx <= Len(events)

\* lines 160-161: if not updates: continue
SkipEmpty ==
    /\ InLoop
    /\ DOMAIN Updates(events[idx], args) = {}
    /\ idx' = idx + 1
    /\ UNCHANGED <<remote, pc, args, events, updated_count, calls, reports, ret,
                   remote0, prev, findVars, authVars>>

\* lines 163-164: the dry-run branch
DryRunStep ==
    /\ InLoop
    /\ DOMAIN Updates(events[idx], args) # {}
    /\ DryRun(args)
    /\ reports' = Append(reports, Report("dry", idx, EventTitle(events[idx]),
                                         Updates(events[idx], args)))
    /\ idx' = idx + 1
    /\ UNCHANGED <<remote, pc, args, events, updated_count, calls, ret,
                   remote0, prev, findVars, authVars>>

Live ==
    /\ InLoop
    /\ DOMAIN Updates(events[idx], args) # {}
    /\ ~DryRun(args)

\* lines 166-184: get, merge, update, both calls succeeding
LiveUpdateOk ==
    /\ Live
    /\ events[idx]["id"] \in DOMAIN Calendar(args.calendar_id)
    /\ LET eid == events[idx]["id"]
           full_event == remote[eid]
           body == MergedBody(full_event, Updates(events[idx], args))
       IN  /\ calls' = calls \o <<GetCall(idx, args.calendar_id, eid, TRUE, full_event),
                                  UpdateCall(idx, args.calendar_id, eid, TRUE, body)>>
           /\ remote' = [remote EXCEPT ![eid] = body]
           /\ reports' = Append(reports, Report("ok", idx, EventTitle(events[idx]),
                                                <<>>))
    /\ updated_count' = updated_count + 1
    /\ idx' = idx + 1
    /\ UNCHANGED <<pc, args, events, ret, remote0, prev, findVars, authVars>>

\* lines 168-171 raise: the get call fails
LiveGetFails ==
    /\ Live
    /\ calls' = Append(calls, GetCall(idx, args.calendar_id, events[idx]["id"],
                                      FALSE, ErrGet))
    /\ IF GetFailure = "caught"
       THEN /\ reports' = Append(reports, Report("fail", idx,
                                                 EventTitle(events[idx]), ErrGet))
            /\ idx' = AfterFailure(idx, Len(events))
            /\ updated_count' = CountAfterFailure(updated_count)
            /\ pc' = pc
       ELSE /\ pc' = "raised"
            /\ UNCHANGED <<reports, idx, updated_count>>
    /\ UNCHANGED <<remote, args, events, ret, remote0, prev, findVars, authVars>>

\* lines 177-181 raise: the get call succeeds, the update call fails
LiveUpdateFails ==
    /\ Live
    /\ events[idx]["id"] \in DOMAIN Calendar(args.calendar_id)
    /\ LET eid == events[idx]["id"]
           full_event == remote[eid]
           body == MergedBody(full_event, Updates(events[idx], args))
       IN  calls' = calls \o <<GetCall(idx, args.calendar_id, eid, TRUE, full_event),
                               UpdateCall(idx, args.calendar_id, eid, FALSE, body)>>
    /\ reports' = Append(reports, Report("fail", idx, EventTitle(events[idx]),
                                         ErrUpdate))
    /\ idx' = AfterFailure(idx, Len(events))
    /\ updated_count' = CountAfterFailure(updated_count)
    /\ UNCHANGED <<remote, pc, args, events, ret, remote0, prev, findVars, authVars>>

\* line 188: return updated_count
Return ==
    /\ pc = "loop"
    /\ idx > Len(events)
    /\ pc' = "done"
    /\ ret' = updated_count
    /\ UNCHANGED <<remote, args, events, idx, updated_count, calls, reports,
                   remote0, prev, findVars, authVars>>

\* another client of the calendar edits the first event's description after the
\* caller's search and before the update: the later get (lines 168-171)
\* returns whatever the service holds by then
OtherWriter ==
    /\ pc = "idle"
    /\ found # <<>>
    /\ remote = BulkCalendar
    /\ remote' = [remote EXCEPT !["e1"] = DictUpdate(@, "description" :> <<"z">>)]
    /\ UNCHANGED <<bulkVars, findVars, authVars>>

\* the caller searches before updating
SearchFilters == {NoneVal, <<"a">>}
Search ==
    /\ pc = "idle"
    /\ \E tc \in SearchFilters :
         FindEventsCall(HomeCalendar, tc, NoDate, NoDate, MaxResults, 1)
    /\ UNCHANGED <<remote, bulkVars, authVars>>

\* any call of find_events
FindEvents ==
    /\ \E cid \in CalendarIds, tc \in FindFilters, sd \in FindStartDates,
          ed \in FindEndDates, mr \in 1..MaxResults, now \in FindNows :
         FindEventsCall(cid, tc, sd, ed, mr, now)
    /\ UNCHANGED <<remote, bulkVars, authVars>>

----------------------------------------------------------------------------
(* Initial states                                                          *)

AuthIdle ==
    /\ token_file = NoFile
    /\ secret_exists = FALSE
    /\ apc = "idle"
    /\ creds = NoCreds
    /\ service = NoService
    /\ raised = NoneVal
    /\ did = NothingDone

FindIdle == listing = <<>> /\ fcall = NoCall /\ found = <<>>

BulkIdle ==
    /\ pc = "idle"
    /\ args = NoArgs
    /\ events = <<>>
    /\ idx = 0
    /\ updated_count = 0
    /\ calls = <<>>
    /\ reports = <<>>
    /\ ret = 0
    /\ remote0 = remote
    /\ prev = <<>>

Init == remote = BulkCalendar /\ FindIdle /\ BulkIdle /\ AuthIdle

Next ==
    \/ Search
    \/ OtherWriter
    \/ \E a \in ArgSets : Invoke(a)
    \/ \E dry \in BOOLEAN : Rerun(dry)
    \/ SkipEmpty
    \/ DryRunStep
    \/ LiveUpdateOk
    \/ LiveGetFails
    \/ LiveUpdateFails
    \/ Return

Spec == Init /\ [][Next]_vars

FindCalendars ==
    {[i \in EventIds |-> FindEvent(i, t[IdIndex(i)], st[IdIndex(i)])] :
        t \in FindTitles \X FindTitles \X {NoneVal, S_MeetingRecap},
        st \in FindStarts}

InitFind == remote \in FindCalendars /\ FindIdle /\ BulkIdle /\ AuthIdle

NextFind == FindEvents

SpecFind == InitFind /\ [][NextFind]_vars

InitAuth ==
    /\ remote = BulkCalendar /\ FindIdle /\ BulkIdle
    /\ token_file \in {NoFile} \cup {<<c>> : c \in Credentials}
    /\ secret_exists \in BOOLEAN
    /\ apc = "idle"
    /\ creds = NoCreds
    /\ service = NoService
    /\ raised = NoneVal
    /\ did = NothingDone

NextAuth ==
    \/ AuthCached
    \/ AuthRefreshOk
    \/ AuthRefreshFails
    \/ AuthMissingSecret
    \/ AuthGrantOk
    \/ AuthGrantFails
    \/ TokenExpires
    \/ TokenDeleted
    \/ SecretChanges

SpecAuth == InitAuth /\ [][NextAuth]_vars

----------------------------------------------------------------------------
(* Properties                                                              *)

UpdateCalls == {k \in DOMAIN calls : calls[k].op = "update"}
OkUpdateCalls == {k \in UpdateCalls : calls[k].ok}
FailedGetCalls == {k \in DOMAIN calls : calls[k].op = "get" /\ ~calls[k].ok}

\* positions of the events argument whose changed-field mapping is non-empty
Attempted == {p \in DOMAIN events : DOMAIN Updates(events[p], args) # {}}

NoFieldSet(a) ==
    /\ a.new_title = NoneVal /\ a.new_description = NoneVal
    /\ a.new_location = NoneVal /\ a.new_color_id = NoneVal
    /\ a.append_to_description = NoneVal

\* the append branch decides the description
AppendMode(a) == ~Truthy(a.new_description) /\ Truthy(a.append_to_description)

\* C1: an invocation with dry_run=True issues no get and no update call, and
\* through any streak of dry-run invocations the remote events stay as they
\* were before the first of them.
C1_DryRunNeverTouchesRemote ==
    (pc # "idle" /\ args.dry_run) => (calls = <<>> /\ remote = remote0)

C1_Witness ==
    /\ pc = "done" /\ args.dry_run
    /\ prev # <<>> /\ prev[1].dry_run
    /\ Len(reports) = 3
    /\ \A k \in DOMAIN reports : reports[k].kind = "dry"

\* C2: the value returned equals the number of update calls that completed in
\* that invocation; it is 0 for a dry run and when no update field is set.
C2_CountIsSuccessfulUpdates ==
    pc = "done" =>
        /\ ret = Cardinality(OkUpdateCalls)
        /\ args.dry_run => ret = 0
        /\ NoFieldSet(args) => ret = 0

C2_Witness ==
    /\ pc = "done" /\ ~args.dry_run /\ Len(events) = 3
    /\ ret = 1
    /\ Cardinality(FailedGetCalls) = 1
    /\ Cardinality(UpdateCalls \ OkUpdateCalls) = 1

\* C3: in live mode a failed update call does not stop the loop: when the
\* invocation returns, the reports are one per attempted event, in input
\* order, each a success or a failure carrying the error of the failed call,
\* and every attempted event was fetched, in input order.
C3_FailureDoesNotAbortBatch ==
    (pc = "done" /\ ~args.dry_run) =>
        /\ Len(reports) = Cardinality(Attempted)
        /\ {reports[k].pos : k \in DOMAIN reports} = Attempted
        /\ \A j, k \in DOMAIN reports : j < k => reports[j].pos < reports[k].pos
        /\ \A k \in DOMAIN reports :
             \/ /\ reports[k].kind = "ok"
                /\ \E c \in OkUpdateCalls : calls[c].pos = reports[k].pos
             \/ /\ reports[k].kind = "fail"
                /\ \E c \in DOMAIN calls :
                     /\ calls[c].pos = reports[k].pos
                     /\ ~calls[c].ok
                     /\ reports[k].detail =
                          (IF calls[c].op = "get" THEN calls[c].data ELSE ErrUpdate)
        /\ \A j, k \in DOMAIN calls : j < k => calls[j].pos <= calls[k].pos

C3_Witness ==
    /\ pc = "done" /\ ~args.dry_run /\ Len(events) = 3
    /\ Len(reports) = 3
    /\ reports[1].kind = "ok"
    /\ reports[2].kind = "fail" /\ reports[2].detail = ErrUpdate
    /\ reports[3].kind = "ok"
    /\ ret = 2

\* C4: every update call is preceded by the successful get of the same event,
\* both addressed by the event's id and the target calendar; its body is the
\* fetched representation with the changed-field mapping overlaid, every other
\* fetched field written back unchanged; a completed update is what the
\* service then holds.
C4_LiveUpdateIsMerge ==
    \A k \in UpdateCalls :
        /\ k > 1
        /\ LET g == calls[k - 1]
               u == calls[k]
               U == Updates(events[u.pos], args)
           IN  /\ g.op = "get" /\ g.ok /\ g.pos = u.pos
               /\ g.eventId = events[u.pos]["id"] /\ u.eventId = g.eventId
               /\ g.calendarId = args.calendar_id /\ u.calendarId = args.calendar_id
               /\ DOMAIN u.data = (DOMAIN g.data) \cup (DOMAIN U)
               /\ \A key \in DOMAIN U : u.data[key] = U[key]
               /\ \A key \in (DOMAIN g.data) \ (DOMAIN U) : u.data[key] = g.data[key]
               /\ u.ok => remote[u.eventId] = u.data

C4_Witness ==
    \E k \in OkUpdateCalls :
        /\ calls[k].eventId = "e2"
        /\ "summary" \in DOMAIN calls[k].data
        /\ "location" \notin DOMAIN Updates(events[calls[k].pos], args)
        /\ calls[k].data["location"] = <<"R">>
        /\ remote["e2"]["start"] = 2

\* C5: with a title filter, find_events returns exactly the listed events whose
\* title contains the filter, letters compared without case, in listing order
\* (a missing title counting as the empty title), and never more than
\* max_results of them.
C5_TitleFilter ==
    fcall.title_contains # NoneVal =>
        LET f == fcall.title_contains
            Title(e) == IF "summary" \in DOMAIN e THEN e["summary"] ELSE <<>>
            Matches(e) ==
                \E k \in 0..(Len(Title(e)) - Len(f)) :
                    \A j \in 1..Len(f) : LowerChar(Title(e)[k + j]) = LowerChar(f[j])
        IN  /\ found = SelectSeq(listing, Matches)
            /\ Len(found) <= fcall.max_results
            /\ \A k \in DOMAIN found :
                 "summary" \notin DOMAIN found[k] => f = <<>>

C5_Witness ==
    /\ fcall.title_contains = S_Meeting
    /\ Len(listing) = 3
    /\ Get(listing[1], "summary", NoneVal) = S_TeamMeeting
    /\ Get(listing[2], "summary", NoneVal) = S_Lunch
    /\ Get(listing[3], "summary", NoneVal) = S_MeetingRecap
    /\ Len(found) = 2
    /\ Get(found[1], "summary", NoneVal) = S_TeamMeeting
    /\ Get(found[2], "summary", NoneVal) = S_MeetingRecap

\* C6: when the caller passes both a full description and an append text
\* (neither is None), every previewed or written description is the full
\* description.
C6_FullDescriptionWins ==
    (pc # "idle" /\ args.new_description # NoneVal
                 /\ args.append_to_description # NoneVal) =>
        /\ \A k \in DOMAIN reports :
             reports[k].kind = "dry" =>
                /\ "description" \in DOMAIN reports[k].detail
                /\ reports[k].detail["description"] = args.new_description
        /\ \A k \in UpdateCalls :
             /\ "description" \in DOMAIN calls[k].data
             /\ calls[k].data["description"] = args.new_description

\* C7 as stated: without the client-secret file and without a valid cached
\* credential, _authenticate raises FileNotFoundError, yields no service and
\* neither refreshes, nor runs the grant, nor writes the token cache.
C7_MissingSecretWheneverNotValid ==
    (apc # "idle" /\ ~did.secret /\ NoValidCreds(did.loaded)) =>
        /\ raised = FileNotFoundError
        /\ service = NoService
        /\ did.effects = {}

\* C7 amended: the same, when moreover the cached credential is not an expired
\* one carrying a refresh token (that one is refreshed without the file).
C7_MissingSecretUnlessRefreshable ==
    (apc # "idle" /\ ~did.secret /\ NoValidCreds(did.loaded)
                  /\ ~Refreshable(did.loaded)) =>
        /\ raised = FileNotFoundError
        /\ apc = "raised"
        /\ service = NoService
        /\ did.effects = {}

C7_Witness ==
    /\ apc = "raised" /\ raised = FileNotFoundError
    /\ ~did.secret
    /\ did.loaded # NoCreds
    /\ did.loaded[1].refresh_token /\ ~did.loaded[1].expired

\* C8 as stated: a failed get call ends bulk_update with that failure, and it
\* is the last remote call of the invocation.
C8_GetFailurePropagates ==
    \A k \in FailedGetCalls : pc = "raised" /\ k = Len(calls)

\* C8 amended: a failed get call is caught like a failed update call: it is
\* reported as that event's failure with the error message, no update call is
\* issued for that event, the invocation goes on to fetch every later
\* attempted event and returns a count that leaves the failed event out.
C8_GetFailureCaught ==
    /\ pc # "raised"
    /\ \A k \in FailedGetCalls :
         /\ \E r \in DOMAIN reports :
              /\ reports[r].pos = calls[k].pos
              /\ reports[r].kind = "fail"
              /\ reports[r].detail = calls[k].data
         /\ \A u \in UpdateCalls : calls[u].pos # calls[k].pos
         /\ pc = "done" =>
              /\ \A p \in Attempted :
                   p > calls[k].pos => \E c \in DOMAIN calls :
                                         calls[c].op = "get" /\ calls[c].pos = p
              /\ ret <= Cardinality(Attempted \ {calls[c].pos : c \in FailedGetCalls})

C8_Witness ==
    /\ pc = "done" /\ Len(events) = 3
    /\ 1 \in FailedGetCalls
    /\ Cardinality(OkUpdateCalls) = 2
    /\ ret = 2

\* C9: when a live invocation that sets no append text is repeated on the same
\* event records, every event updated in both runs has after the second run
\* the value in every field that it had after the first.
C9_NonAppendIdempotent ==
    (/\ pc = "done" /\ prev # <<>>
     /\ ~args.dry_run
     /\ args.append_to_description = NoneVal) =>
        (~prev[1].dry_run =>
            \A p \in prev[1].okPos \cap OkPositions(calls) :
                remote[events[p]["id"]] = prev[1].remoteAfter[events[p]["id"]])

C9_Witness ==
    /\ pc = "done" /\ prev # <<>>
    /\ ~args.dry_run /\ ~prev[1].dry_run
    /\ args.append_to_description = NoneVal
    /\ 1 \in prev[1].okPos \cap OkPositions(calls)
    /\ remote[events[1]["id"]] # BulkCalendar[events[1]["id"]]

\* C10: an appended description is built from the caller's event record and the
\* append text alone; the fetched description is not read, so a remote
\* description that differs from the record is overwritten, and repeating the
\* append on the same records writes the same description again.
C10_AppendReadsCallerRecord ==
    AppendMode(args) =>
        /\ \A k \in UpdateCalls :
             LET rec == events[calls[k].pos]
                 old == IF "description" \in DOMAIN rec THEN rec["description"] ELSE <<>>
             IN  /\ calls[k].data["description"] =
                      Strip(old \o <<"\n">> \o args.append_to_description)
                 /\ calls[k].ok =>
                      remote[calls[k].eventId]["description"] =
                          Strip(old \o <<"\n">> \o args.append_to_description)
        /\ (pc = "done" /\ prev # <<>>) =>
             (~prev[1].dry_run /\ ~args.dry_run =>
                \A p \in prev[1].okPos \cap OkPositions(calls) :
                    remote[events[p]["id"]]["description"] =
                        prev[1].remoteAfter[events[p]["id"]]["description"])

C10_Witness ==
    /\ AppendMode(args)
    /\ \E k \in OkUpdateCalls :
         /\ Get(calls[k - 1].data, "description", NoneVal) = <<"z">>
         /\ Get(events[calls[k].pos], "description", NoneVal) = <<"a">>
         /\ Get(remote[calls[k].eventId], "description", NoneVal) =
              <<"a", "\n", " ", "x">>

====
